---- MODULE Spec2Model ----
(***************************************************************************)
(* Model of SBS_BGC_Navis/parse_msg_files_pmel.py: the per-float netCDF    *)
(* archive (CYCLE_NUMBER and the time-indexed arrays), the merge of one    *)
(* parsed msg file into it (write_nc_file, write_nc_one_step,              *)
(* add_time_step_nc), the ledger of processed files (check_conv_need_file, *)
(* mark_file_processed) and the body of the main loop over input files.    *)
(***************************************************************************)
EXTENDS Integers, Sequences, FiniteSets, TLC

\* ------------------------------------------------------------------ bounds
\* cycle numbers that occur in file names are 1..MaxCycle
MaxCycle == 3
\* a file's values are all equal to its "stamp", 1..MaxStamp
MaxStamp == 2
\* with a ledger (option -l): cycle numbers in file names are 1..MaxLogCycle
MaxLogCycle == 1
\* with a ledger: no file is processed once it holds MaxLedger rows
MaxLedger == 2

\* np.nan: the "not available" value of coords and the _FillValue of the
\* float variables of the archive
NaN == -1

\* directories an input file can lie in
Dirs == {"in", "alt"}

\* --------------------------------------------------------------- file names
\* A file name is the directory and the parts that fname.split('.') yields:
\* the float id, the profile part (a sequence of characters) and the type.
\* "glued" marks a name without the second dot, <floatid>.<digits>msg.
Digits == <<"0", "1", "2", "3", "4", "5", "6", "7", "8", "9">>

IsDigit(ch) == \E i \in 1..Len(Digits) : Digits[i] = ch

DigitVal(ch) == (CHOOSE i \in 1..Len(Digits) : Digits[i] = ch) - 1

AllDigits(s) == Len(s) > 0 /\ \A i \in 1..Len(s) : IsDigit(s[i])

RECURSIVE IntOf(_)
IntOf(s) == IF Len(s) = 0 THEN 0
            ELSE 10 * IntOf(SubSeq(s, 1, Len(s) - 1)) + DigitVal(s[Len(s)])

\* the three-digit profile part of a regular msg file name, e.g. "003"
ProfilePart(c) == <<Digits[1], Digits[(c \div 10) + 1], Digits[(c % 10) + 1]>>

StdName(d, c, t) == [dir |-> d, floatpart |-> <<"1">>, profpart |-> ProfilePart(c),
                     ftype |-> t, glued |-> FALSE]

\* names whose profile part is not a number: "1.x3.msg" and "1.03msg"
AlphaName == [dir |-> "in", floatpart |-> <<"1">>, profpart |-> <<"x", "3">>,
              ftype |-> "msg", glued |-> FALSE]

GluedName == [dir |-> "in", floatpart |-> <<"1">>, profpart |-> <<"0", "3">>,
              ftype |-> "msg", glued |-> TRUE]

\* the input files of the runs, with a ledger (option -l) and without
MsgNames(log_set) ==
    IF log_set
    THEN {StdName(d, c, "msg") : d \in Dirs, c \in 1..MaxLogCycle} \cup {AlphaName}
    ELSE {StdName("in", c, "msg") : c \in 1..MaxCycle} \cup {AlphaName, GluedName}

\* mutant of ParseFilename: the digits of a part are taken and the rest of it
\* is dropped, as a regex such as that of get_profile_id would
ParseFilename_Lenient(fn) ==
    LET digits(s) == SelectSeq(s, IsDigit)
    IN [ok |-> TRUE, floatid |-> IntOf(digits(fn.floatpart)),
        profile |-> IntOf(digits(fn.profpart)), ftype |-> fn.ftype]

\* parse_filename: int(parts[0]), int(parts[1]), parts[2]; int() raises
\* ValueError on a part that is not a number ("03msg" for a glued name)
ParseFilename(fn) ==
    IF AllDigits(fn.floatpart) /\ AllDigits(fn.profpart) /\ ~fn.glued
    THEN [ok |-> TRUE, floatid |-> IntOf(fn.floatpart),
          profile |-> IntOf(fn.profpart), ftype |-> fn.ftype]
    ELSE [ok |-> FALSE, floatid |-> 0, profile |-> 0, ftype |-> fn.ftype]

\* mutant of GetFilenameOut: the float id is left out of the name of the
\* output file
GetFilenameOut_NoId(fn) ==
    IF AllDigits(fn.floatpart) /\ AllDigits(fn.profpart) /\ fn.ftype = "msg"
       /\ (fn.glued => Len(fn.profpart) >= 2)
    THEN 1
    ELSE 0

\* get_filename_out: the regex (\d+)\.\d+.msg matches "1.003.msg" and
\* "1.03msg" (the unescaped dot takes the last digit), but not "1.x3.msg";
\* the result is the float id of the archive, 0 for None
GetFilenameOut(fn) ==
    IF AllDigits(fn.floatpart) /\ AllDigits(fn.profpart) /\ fn.ftype = "msg"
       /\ (fn.glued => Len(fn.profpart) >= 2)
    THEN IntOf(fn.floatpart)
    ELSE 0

\* file.replace('.msg', '.log'): a glued name holds no ".msg" and is unchanged
LogNameOf(fn) == IF fn.glued THEN fn ELSE [fn EXCEPT !.ftype = "log"]

\* ------------------------------------------------------------ file contents
\* What a msg file holds: the stamp all its values carry, whether the
\* "Profile ... terminated" line is there, how the GPS block ends ("fix": a
\* Fix line, "nofix": no "GPS fix obtained" line, "eof": the file ends before
\* it), whether the header holds the engineering variable v, whether the
\* high-resolution block (ProfileLength) is there.  size = 0: an empty file.
\* The files fed to the runs: a complete file, a file cut off before the
\* header variable, the profile time and the fix, and an empty file.
MsgShapes ==
    { [prof |-> TRUE,  gps |-> "fix",   v |-> TRUE,  hr |-> TRUE,  size |-> 1],
      [prof |-> FALSE, gps |-> "nofix", v |-> FALSE, hr |-> FALSE, size |-> 1],
      [prof |-> FALSE, gps |-> "eof",   v |-> FALSE, hr |-> FALSE, size |-> 0] }

MsgContents(log_set) ==
    { [stamp |-> s, shape |-> sh] :
        s \in 1..MaxStamp,
        sh \in IF log_set THEN {x \in MsgShapes : x.size > 0} ELSE MsgShapes }

\* a log file: 0 when there is none, else the stamp of its ProfileInit line;
\* the runs without a ledger are fed msg files that have no log file
LogContents(log_set) == IF log_set THEN 0..1 ELSE {0}

\* get_checksum: sha256 of the bytes, taken as free of collisions
GetChecksum(content) == content

\* -------------------------------------------------------------------- state
VARIABLES
    exists,        \* os.path.exists(filename_out): the float's archive is there
    CYCLE_NUMBER,  \* the archive's CYCLE_NUMBER array along the time dimension
    data,          \* the other time-indexed arrays: data[i][name], i a position
    ledger,        \* the rows of the log of processed files, in file order
    status,        \* "running", or "aborted" once an exception left the loop
    useLog,        \* ARGS.log is set (option -l)
    other,         \* the archive of a second float, eng_2.nc
    arg,           \* the argument a parsing function is called with
    res            \* what the function returned, <<>> before the call

\* the variables that the runs over one float's files leave alone
aux == <<other, arg, res>>

vars == <<exists, CYCLE_NUMBER, data, ledger, status, useLog, other, arg, res>>

\* the time-indexed variables of the archive that the model follows
EngVars == {"ParkPistonPos", "DeepProfilePressure_actual", "ProfileLength"}

Fields == {"time", "longitude", "latitude"} \cup EngVars

\* a position of the unlimited dimension that nothing was written to yet
FillRecord == [f \in Fields |-> NaN]

\* ------------------------------------------------------------ dictionaries
Has(d, k) == k \in DOMAIN d

Put(d, k, x) == [n \in DOMAIN d \cup {k} |-> IF n = k THEN x ELSE d[n]]

EmptyDict == [n \in {} |-> 0]

\* ------------------------------------------------------------------ parsing
\* parse_msg_file with parse_msg_header, parse_msg_middle, parse_msg_gps_fix:
\* the dictionaries vars and coords of one msg file
ParseMsgFile(mc) ==
    IF mc.shape.size = 0
    THEN [vars |-> EmptyDict, coords |-> EmptyDict]
    ELSE LET s  == mc.stamp
             v1 == IF mc.shape.v THEN Put(EmptyDict, "ParkPistonPos", s) ELSE EmptyDict
             v2 == IF mc.shape.hr THEN Put(v1, "ProfileLength", s) ELSE v1
             c1 == IF mc.shape.prof THEN Put(EmptyDict, "Profile_time", s) ELSE EmptyDict
         IN CASE mc.shape.gps = "fix" ->
                   [vars   |-> Put(v2, "MessageTime", s),
                    coords |-> Put(Put(Put(c1, "lon", s), "lat", s), "Fix_time", s)]
              [] mc.shape.gps = "nofix" ->
                   [vars   |-> Put(v2, "MessageTime", 0),
                    coords |-> Put(Put(Put(c1, "lon", NaN), "lat", NaN), "Fix_time", NaN)]
              [] OTHER -> [vars |-> v2, coords |-> c1]

\* parse_log_file: -1 without a log file, else its ProfileInit pressure is
\* added to vars; logEOT is set in either case
ParseLogFile(lc, vs) ==
    IF lc = 0
    THEN [rc |-> -1, vars |-> Put(vs, "logEOT", 0)]
    ELSE [rc |-> 1, vars |-> Put(Put(vs, "logEOT", 1), "DeepProfilePressure_actual", lc)]

\* assign_time: coords['time'] from the profile time, else the fix time, else
\* the message time, else nan
AssignTime(vs, coords) ==
    IF Has(coords, "Profile_time") THEN Put(coords, "time", coords["Profile_time"])
    ELSE IF Has(coords, "Fix_time") THEN Put(coords, "time", coords["Fix_time"])
    ELSE IF Has(vs, "MessageTime") THEN Put(coords, "time", vs["MessageTime"])
    ELSE Put(coords, "time", NaN)

\* ------------------------------------------------------------------ archive
\* create_nc_file: nothing if the archive exists, else an archive with an
\* empty time dimension
CreateNcFile(nc) ==
    IF nc.exists THEN nc
    ELSE [exists |-> TRUE, cycles |-> <<>>, data |-> <<>>]

\* mutant of WrittenRecord: the writes of time, longitude and latitude are
\* left out
WrittenRecord_NoCoords(old, vs, coords) ==
    [f \in Fields |-> IF Has(vs, f) THEN vs[f] ELSE old[f]]

\* the record at 0-based position idt after the writes of write_nc_one_step:
\* time, longitude and latitude when coords holds them, each variable of vars
WrittenRecord(old, vs, coords) ==
    [f \in Fields |->
        CASE f = "time"      -> IF Has(coords, "time") THEN coords["time"] ELSE old[f]
          [] f = "longitude" -> IF Has(coords, "lon") THEN coords["lon"] ELSE old[f]
          [] f = "latitude"  -> IF Has(coords, "lat") THEN coords["lat"] ELSE old[f]
          [] OTHER           -> IF Has(vs, f) THEN vs[f] ELSE old[f]]

\* write_nc_one_step: CYCLE_NUMBER[idt] = profile and the record's fields;
\* writing at idt = len extends the unlimited dimension by one position
WriteNcOneStep(nc, vs, coords, idt, profile) ==
    LET old == IF idt < Len(nc.cycles) THEN nc.data[idt + 1] ELSE FillRecord
        rec == WrittenRecord(old, vs, coords)
    IN IF idt < Len(nc.cycles)
       THEN [nc EXCEPT !.cycles[idt + 1] = profile, !.data[idt + 1] = rec]
       ELSE [nc EXCEPT !.cycles = Append(@, profile), !.data = Append(@, rec)]

\* mutant of AddTimeStepNc: bisect is imported; no variable has the dimension
\* N_PROF, nothing is shifted, and the insertion index is returned
AddTimeStepNc_Imported(nc, profile) ==
    [raised |-> FALSE,
     idt    |-> Cardinality({i \in 1..Len(nc.cycles) : nc.cycles[i] <= profile}),
     nc     |-> nc]

\* add_time_step_nc: its call of bisect.bisect raises NameError, the module
\* bisect is never imported; the archive, opened for appending, is not
\* written
AddTimeStepNc(nc, profile) == [raised |-> TRUE, idt |-> 0, nc |-> nc]

\* np.nonzero(cycles == profile)[0][0]: the first 0-based position of profile
FirstIndex(cycles, profile) ==
    (CHOOSE i \in 1..Len(cycles) :
        /\ cycles[i] = profile
        /\ \A j \in 1..(i - 1) : cycles[j] # profile) - 1

\* mutant of WriteNcFile: a cycle that is not stored is appended wherever it
\* lies
WriteNcFile_AppendUnordered(nc, vs, coords, profile) ==
    IF \E i \in 1..Len(nc.cycles) : nc.cycles[i] = profile
    THEN [raised |-> FALSE,
          nc |-> WriteNcOneStep(nc, vs, coords, FirstIndex(nc.cycles, profile), profile)]
    ELSE [raised |-> FALSE,
          nc |-> WriteNcOneStep(nc, vs, coords, Len(nc.cycles), profile)]

\* mutant of WriteNcFile: the position of a stored cycle is not looked up, its
\* record is written as a new last position
WriteNcFile_NoLookup(nc, vs, coords, profile) ==
    IF Len(nc.cycles) = 0 \/ profile >= nc.cycles[Len(nc.cycles)]
    THEN [raised |-> FALSE,
          nc |-> WriteNcOneStep(nc, vs, coords, Len(nc.cycles), profile)]
    ELSE [raised |-> TRUE, nc |-> nc]

\* write_nc_file: append past the last cycle, rewrite the position of a
\* stored cycle, else make room with add_time_step_nc and write there
WriteNcFile(nc, vs, coords, profile) ==
    IF Len(nc.cycles) = 0 \/ profile > nc.cycles[Len(nc.cycles)]
    THEN [raised |-> FALSE,
          nc |-> WriteNcOneStep(nc, vs, coords, Len(nc.cycles), profile)]
    ELSE IF \E i \in 1..Len(nc.cycles) : nc.cycles[i] = profile
    THEN [raised |-> FALSE,
          nc |-> WriteNcOneStep(nc, vs, coords, FirstIndex(nc.cycles, profile), profile)]
    ELSE LET a == AddTimeStepNc(nc, profile)
         IN IF a.raised THEN [raised |-> TRUE, nc |-> a.nc]
            ELSE [raised |-> FALSE,
                  nc |-> WriteNcOneStep(a.nc, vs, coords, a.idt, profile)]

\* ------------------------------------------------------------------- ledger
\* log.loc[log['Filename'] == filename]
PathRows(log, fn) == SelectSeq(log, LAMBDA r : r.Filename = fn)

\* mutant of KeyRows: the profile is left out of the key
KeyRows_NoProfile(log, floatid, profile, ftype) ==
    SelectSeq(log, LAMBDA r : r.FloatID = floatid /\ r.Type = ftype)

\* log.loc[(FloatID == floatid) & (Profile == profile) & (Type == ftype)]
KeyRows(log, floatid, profile, ftype) ==
    SelectSeq(log, LAMBDA r : r.FloatID = floatid /\ r.Profile = profile
                              /\ r.Type = ftype)

\* mutant of CheckConvNeedFile: the first matching row is compared, values[0]
CheckConvNeedFile_FirstRow(fn, h, log) ==
    LET this_row == PathRows(log, fn)
    IN IF Len(this_row) > 0
       THEN this_row[1].Checksum # h
       ELSE LET pf   == ParseFilename(fn)
                rows == KeyRows(log, pf.floatid, pf.profile, pf.ftype)
            IN IF Len(rows) = 0 THEN TRUE
               ELSE rows[1].Checksum # h

\* check_conv_need_file: FALSE when the file (checksum h) is identical to the
\* one processed before, TRUE when it has to be processed
CheckConvNeedFile(fn, h, log) ==
    LET this_row == PathRows(log, fn)
    IN IF Len(this_row) > 0
       THEN this_row[Len(this_row)].Checksum # h
       ELSE LET pf   == ParseFilename(fn)
                rows == KeyRows(log, pf.floatid, pf.profile, pf.ftype)
            IN IF Len(rows) = 0 THEN TRUE
               ELSE rows[Len(rows)].Checksum # h

\* check_conv_need: TRUE when the msg file or its log file, if there is one
\* (lc # 0), is new or changed
CheckConvNeed(fn, mc, lc, log) ==
    \/ CheckConvNeedFile(fn, GetChecksum(mc), log)
    \/ lc # 0 /\ CheckConvNeedFile(LogNameOf(fn), GetChecksum(lc), log)

\* mark_file_processed: one row appended to the log
MarkFileProcessed(fn, h, log) ==
    LET pf == ParseFilename(fn)
    IN Append(log, [Filename |-> fn, FloatID |-> pf.floatid, Profile |-> pf.profile,
                    Type |-> pf.ftype, Checksum |-> h])

\* ---------------------------------------------------------------- main loop
\* What the loop body hands to write_nc_file for a msg file holding mc and a
\* log file holding lc: parse_msg_file, parse_log_file (rc: its result),
\* assign_time and the default of ProfileLength
BuildRecord(mc, lc) ==
    LET parsed == ParseMsgFile(mc)
        lg     == ParseLogFile(lc, parsed.vars)
    IN [rc     |-> lg.rc,
        coords |-> AssignTime(lg.vars, parsed.coords),
        vars   |-> IF Has(lg.vars, "ProfileLength") THEN lg.vars
                   ELSE Put(lg.vars, "ProfileLength", 0)]

\* The body of "for file in ARGS.filename_in" for an existing file fn that
\* holds mc, with the log file content lc beside it (0: none).  st and the
\* result are the records [nc, ledger, status]; the loop is left ("aborted")
\* by the first exception, none is caught.
MainLoopBody(st, log_set, fn, mc, lc) ==
    LET pf == ParseFilename(fn)
    IN IF log_set /\ ~pf.ok
       THEN [st EXCEPT !.status = "aborted"]
       ELSE IF log_set /\ ~CheckConvNeed(fn, mc, lc, st.ledger)
       THEN st
       ELSE
         LET filename_out_eng == GetFilenameOut(fn)
             rec     == BuildRecord(mc, lc)
             ledger1 == IF rec.rc >= 0 /\ log_set
                        THEN MarkFileProcessed(LogNameOf(fn), GetChecksum(lc), st.ledger)
                        ELSE st.ledger
             coords  == rec.coords
             vs      == rec.vars
         IN IF DOMAIN vs = {} /\ DOMAIN coords = {}
            THEN [st EXCEPT !.ledger = ledger1]
            ELSE IF filename_out_eng = 0
            THEN [st EXCEPT !.ledger = ledger1, !.status = "aborted"]
            ELSE
              LET nc1 == CreateNcFile(st.nc)
              IN IF ~pf.ok
                 THEN [nc |-> nc1, ledger |-> ledger1, status |-> "aborted"]
                 ELSE
                   LET w == WriteNcFile(nc1, vs, coords, pf.profile)
                   IN IF w.raised
                      THEN [nc |-> w.nc, ledger |-> ledger1, status |-> "aborted"]
                      ELSE [nc |-> w.nc,
                            ledger |-> IF log_set
                                       THEN MarkFileProcessed(fn, GetChecksum(mc), ledger1)
                                       ELSE ledger1,
                            status |-> "running"]

\* the program's state as the record MainLoopBody works on
State == [nc |-> [exists |-> exists, cycles |-> CYCLE_NUMBER, data |-> data],
          ledger |-> ledger, status |-> status]

\* the log files that can lie beside fn: a name that parse_filename rejects
\* has none
LogContentsOf(log_set, fn) ==
    IF ParseFilename(fn).ok THEN LogContents(log_set) ELSE {0}

\* ------------------------------------------------------------------ actions
Init ==
    /\ exists = FALSE
    /\ CYCLE_NUMBER = <<>>
    /\ data = <<>>
    /\ ledger = <<>>
    /\ status = "running"
    /\ useLog \in BOOLEAN
    /\ other = [exists |-> FALSE, cycles |-> <<>>, data |-> <<>>]
    /\ arg = <<>>
    /\ res = <<>>

\* one pass of the main loop
ProcessFile(fn, mc, lc) ==
    /\ status = "running"
    /\ Len(ledger) < MaxLedger
    /\ LET r == MainLoopBody(State, useLog, fn, mc, lc)
       IN /\ exists' = r.nc.exists
          /\ CYCLE_NUMBER' = r.nc.cycles
          /\ data' = r.nc.data
          /\ ledger' = r.ledger
          /\ status' = r.status
    /\ UNCHANGED <<useLog, aux>>

\* the script is started again after a run that an exception ended
Restart ==
    /\ status = "aborted"
    /\ status' = "running"
    /\ UNCHANGED <<exists, CYCLE_NUMBER, data, ledger, useLog, aux>>

Next ==
    \/ \E fn \in MsgNames(useLog), mc \in MsgContents(useLog) :
          \E lc \in LogContentsOf(useLog, fn) : ProcessFile(fn, mc, lc)
    \/ Restart

Spec == Init /\ [][Next]_vars

\* ------------------------------------------------------ terms of the claims
Range(s) == {s[i] : i \in 1..Len(s)}

Count(s, x) == Cardinality({i \in 1..Len(s) : s[i] = x})

StrictlyAscending(s) == \A i \in 1..(Len(s) - 1) : s[i] < s[i + 1]

\* the archive as stored, and as write_nc_file finds it after create_nc_file
Archive == [exists |-> exists, cycles |-> CYCLE_NUMBER, data |-> data]

\* the msg file holding mc provides a value (its stamp) for the field f
Provides(mc, f) ==
    /\ mc.shape.size > 0
    /\ CASE f = "time"          -> mc.shape.prof \/ mc.shape.gps = "fix"
         [] f = "longitude"     -> mc.shape.gps = "fix"
         [] f = "latitude"      -> mc.shape.gps = "fix"
         [] f = "ParkPistonPos" -> mc.shape.v
         [] f = "ProfileLength" -> mc.shape.hr
         [] OTHER               -> FALSE

\* write_nc_file for the msg file of cycle p holding mc, without a log file
Merged(p, mc) ==
    LET rec == BuildRecord(mc, 0)
    IN WriteNcFile(CreateNcFile(Archive), rec.vars, rec.coords, p)

\* C1: after any sequence of merges into a float's archive, starting from an
\* empty series, CYCLE_NUMBER is strictly ascending, so that no two positions
\* hold the same cycle
C1_CyclesStrictlyAscending == StrictlyAscending(CYCLE_NUMBER)

C1_Witness == Len(CYCLE_NUMBER) >= 3 /\ Len(data) = Len(CYCLE_NUMBER)

\* C2: two cycles merged in either order: merging a second cycle b into a
\* series that holds the one cycle a leaves the series ascending with exactly
\* one record for a and exactly one for b
C2_BothOrders ==
    Len(CYCLE_NUMBER) = 1 =>
       \A b \in 1..MaxCycle, mc \in MsgContents(useLog) :
          b # CYCLE_NUMBER[1] =>
             LET after == Merged(b, mc).nc.cycles
             IN /\ StrictlyAscending(after)
                /\ Count(after, CYCLE_NUMBER[1]) = 1
                /\ Count(after, b) = 1

\* C3: insert with shift: merging a cycle c that lies strictly between two
\* stored cycles moves every record at or after the insertion point one
\* position later with its values, puts c at the freed position and leaves
\* the records before it alone
C3_InsertShifts ==
    \A c \in 1..MaxCycle, mc \in MsgContents(useLog) :
       LET n == Len(CYCLE_NUMBER)
           k == Cardinality({i \in 1..n : CYCLE_NUMBER[i] < c})
       IN (n >= 2 /\ c \notin Range(CYCLE_NUMBER)
             /\ CYCLE_NUMBER[1] < c /\ c < CYCLE_NUMBER[n]) =>
          LET m == Merged(c, mc)
          IN /\ ~m.raised
             /\ Len(m.nc.cycles) = n + 1 /\ Len(m.nc.data) = n + 1
             /\ m.nc.cycles[k + 1] = c
             /\ \A i \in 1..k : /\ m.nc.cycles[i] = CYCLE_NUMBER[i]
                                /\ m.nc.data[i] = data[i]
             /\ \A i \in (k + 1)..n : /\ m.nc.cycles[i + 1] = CYCLE_NUMBER[i]
                                      /\ m.nc.data[i + 1] = data[i]

\* C4: the series never shrinks: no step lowers the number of records or
\* drops a cycle that was stored
C4_NeverShrinks ==
    [][/\ Len(CYCLE_NUMBER') >= Len(CYCLE_NUMBER)
       /\ Len(data') >= Len(data)
       /\ Range(CYCLE_NUMBER) \subseteq Range(CYCLE_NUMBER')]_vars

C4_Witness == Len(CYCLE_NUMBER) >= 2 /\ status = "aborted"

\* C5: update in place: merging a file of a stored cycle writes that cycle's
\* position only, keeps the length, sets the fields the file provides and
\* leaves every field it does not provide at its stored value
C5_UpdateInPlace ==
    \A i \in 1..Len(CYCLE_NUMBER), mc \in MsgContents(useLog) :
       LET m == Merged(CYCLE_NUMBER[i], mc)
       IN /\ ~m.raised
          /\ m.nc.cycles = CYCLE_NUMBER
          /\ Len(m.nc.data) = Len(data)
          /\ \A j \in 1..Len(data) : j # i => m.nc.data[j] = data[j]
          /\ \A f \in Fields :
                m.nc.data[i][f] = IF Provides(mc, f) THEN mc.stamp ELSE data[i][f]

\* C6: append: merging a cycle p into an empty series, or a p above the last
\* stored cycle, writes the record at position len(series), with p and the
\* values the file provides, and leaves every stored position unchanged
C6_Append ==
    \A p \in 1..MaxCycle, mc \in MsgContents(useLog) :
       LET n == Len(CYCLE_NUMBER)
       IN (n = 0 \/ p > CYCLE_NUMBER[n]) =>
          LET m == Merged(p, mc)
          IN /\ ~m.raised
             /\ Len(m.nc.cycles) = n + 1 /\ Len(m.nc.data) = n + 1
             /\ m.nc.cycles[n + 1] = p
             /\ \A f \in Fields : Provides(mc, f) => m.nc.data[n + 1][f] = mc.stamp
             /\ \A i \in 1..n : /\ m.nc.cycles[i] = CYCLE_NUMBER[i]
                                /\ m.nc.data[i] = data[i]

C6_Witness ==
    /\ Len(CYCLE_NUMBER) = 2
    /\ CYCLE_NUMBER[2] > CYCLE_NUMBER[1] + 1
    /\ data[1]["time"] # NaN /\ data[2]["time"] # NaN

\* the input names from which no cycle can be derived
UnderivableNames(log_set) == MsgNames(log_set) \cap {AlphaName, GluedName}

KeyMatch(r, fn) ==
    /\ r.Type = fn.ftype
    /\ r.FloatID = IntOf(fn.floatpart)
    /\ r.Profile = IntOf(fn.profpart)

PathMatch(r, fn) == r.Type = fn.ftype /\ r.Filename = fn

\* the index of the last-appended row with the path, or the key, of fn; 0
\* when there is none
LastPathIdx(fn) ==
    LET S == {i \in 1..Len(ledger) : PathMatch(ledger[i], fn)}
    IN IF S = {} THEN 0 ELSE CHOOSE i \in S : \A j \in S : j <= i

LastKeyIdx(fn) ==
    LET S == {i \in 1..Len(ledger) : KeyMatch(ledger[i], fn)}
    IN IF S = {} THEN 0 ELSE CHOOSE i \in S : \A j \in S : j <= i

\* the file names the change check is asked about: the input names, the same
\* files in a directory no file was processed from, and one more cycle
CheckNames(t) ==
    {StdName(d, c, t) : d \in Dirs \cup {"new"}, c \in 1..(MaxLogCycle + 1)}

CheckHashes(t) == IF t = "msg" THEN MsgContents(TRUE) ELSE LogContents(TRUE) \ {0}

\* C8: processing again a transmission whose content is identical to the one
\* last processed for its (float, cycle) -- the msg file has the checksum of
\* the last ledger row of its key, and the log file beside it, if there is
\* one, has the checksum of the last ledger row of its own key -- leaves the
\* archive as it was, CYCLE_NUMBER and every field of every position, and
\* raises nothing
C8_ReprocessingIsNoOp ==
    \A fn \in MsgNames(useLog) \ UnderivableNames(useLog), lc \in LogContents(useLog) :
       LET k  == LastKeyIdx(fn)
           kl == LastKeyIdx(LogNameOf(fn))
       IN (k > 0 /\ (lc # 0 => (kl > 0 /\ ledger[kl].Checksum = lc))) =>
          LET st == [State EXCEPT !.status = "running"]
              r  == MainLoopBody(st, useLog, fn, ledger[k].Checksum, lc)
          IN /\ r.nc = State.nc
             /\ r.status = "running"

\* one transmission was processed under two paths: the file at the older
\* path, now with the content processed last, is not skipped by the check
C8_Witness ==
    \E fn \in MsgNames(useLog) \ UnderivableNames(useLog) :
       /\ LastKeyIdx(fn) > 0 /\ LastPathIdx(fn) > 0
       /\ LastPathIdx(fn) < LastKeyIdx(fn)
       /\ ledger[LastPathIdx(fn)].Checksum # ledger[LastKeyIdx(fn)].Checksum

C10_LastAppendedRow ==
    \A t \in {"msg", "log"} : \A fn \in CheckNames(t), h \in CheckHashes(t) :
       LET pi == LastPathIdx(fn)
           ki == LastKeyIdx(fn)
       IN CheckConvNeedFile(fn, h, ledger) =
             IF pi > 0 THEN ledger[pi].Checksum # h
             ELSE IF ki > 0 THEN ledger[ki].Checksum # h
             ELSE TRUE

\* a path without rows whose key has two rows with different checksums
C10_Witness ==
    \E fn \in CheckNames("msg") :
       /\ LastPathIdx(fn) = 0
       /\ \E i, j \in 1..Len(ledger) :
             /\ i < j /\ KeyMatch(ledger[i], fn) /\ KeyMatch(ledger[j], fn)
             /\ ledger[i].Checksum # ledger[j].Checksum

\* ------------------------------------------------- a crash during the merge
\* write_nc_one_step opens the archive itself with nc.Dataset(filename_out,
\* 'a') and assigns in place: CYCLE_NUMBER[idt], then time, longitude,
\* latitude, then the variables of vars in their order; there is no staging
\* file and no rename.  The writes in the order they are made:
WriteOrder ==
    <<"time", "longitude", "latitude",
      "ParkPistonPos", "ProfileLength", "DeepProfilePressure_actual">>

WriteIndex(f) == CHOOSE i \in 1..Len(WriteOrder) : WriteOrder[i] = f

\* the archive when the process dies in write_nc_one_step after p of its
\* writes reached the file, the write of CYCLE_NUMBER[idt] being the first
PartialWrite(nc, vs, coords, idt, profile, p) ==
    LET old == IF idt < Len(nc.cycles) THEN nc.data[idt + 1] ELSE FillRecord
        new == WrittenRecord(old, vs, coords)
        rec == [f \in Fields |-> IF WriteIndex(f) < p THEN new[f] ELSE old[f]]
    IN IF p = 0 THEN nc
       ELSE IF idt < Len(nc.cycles)
       THEN [nc EXCEPT !.cycles[idt + 1] = profile, !.data[idt + 1] = rec]
       ELSE [nc EXCEPT !.cycles = Append(@, profile), !.data = Append(@, rec)]

\* the loop body reaches write_nc_one_step for the file: it is not skipped,
\* its names are accepted, and its cycle is appended or updated in place
ReachesWrite(st, log_set, fn, mc, lc) ==
    LET pf == ParseFilename(fn)
    IN /\ pf.ok
       /\ log_set => CheckConvNeed(fn, mc, lc, st.ledger)
       /\ GetFilenameOut(fn) # 0
       /\ IF Len(st.nc.cycles) = 0 THEN TRUE
          ELSE IF pf.profile > st.nc.cycles[Len(st.nc.cycles)] THEN TRUE
          ELSE \E i \in 1..Len(st.nc.cycles) : st.nc.cycles[i] = pf.profile

\* the process is killed while write_nc_one_step merges the file fn: the log
\* file's row is in the ledger (main marks it before the merge), the msg
\* file's row is not, and p writes of the merge are in the archive
CrashInMerge(fn, mc, lc, p) ==
    /\ status = "running"
    /\ Len(ledger) < MaxLedger
    /\ ReachesWrite(State, useLog, fn, mc, lc)
    /\ LET pf  == ParseFilename(fn)
           rec == BuildRecord(mc, lc)
           nc1 == CreateNcFile(State.nc)
           idt == IF \E i \in 1..Len(nc1.cycles) : nc1.cycles[i] = pf.profile
                  THEN FirstIndex(nc1.cycles, pf.profile)
                  ELSE Len(nc1.cycles)
           nc2 == PartialWrite(nc1, rec.vars, rec.coords, idt, pf.profile, p)
       IN /\ exists' = nc2.exists
          /\ CYCLE_NUMBER' = nc2.cycles
          /\ data' = nc2.data
          /\ ledger' = IF rec.rc >= 0 /\ useLog
                       THEN MarkFileProcessed(LogNameOf(fn), GetChecksum(lc), ledger)
                       ELSE ledger
    /\ status' = "crashed"
    /\ UNCHANGED <<useLog, aux>>

\* the runs of Spec, each of which a kill may end; what the archive left
\* by a kill does to later runs is not followed
CrashNext ==
    \/ Next
    \/ \E fn \in MsgNames(useLog), mc \in MsgContents(useLog) :
          \E lc \in LogContentsOf(useLog, fn), p \in 0..(Len(WriteOrder) + 1) :
             CrashInMerge(fn, mc, lc, p)

CrashSpec == Init /\ [][CrashNext]_vars

\* C11: a merge is all-or-nothing: when the process dies between the start
\* and the end of one transmission's merge, the archive is what it was before
\* that merge: same existence, same CYCLE_NUMBER, same records
C11_CrashLeavesArchive ==
    [][status' = "crashed" =>
          /\ exists' = exists
          /\ CYCLE_NUMBER' = CYCLE_NUMBER
          /\ data' = data]_vars

\* ------------------------------------------------------------ the batch loop
\* C12: a failure in one transmission never aborts the batch: the loop over
\* the input files is never left by an exception, every later file of the
\* list is still processed or skipped
C12_BatchNeverAborted == status # "aborted"

\* ----------------------------------------------------------------- two floats
\* the files of two floats in one input list; the archive of float 1 is the
\* one of the runs above, the archive of float 2 is the variable other
MaxPairCycle == 2

FloatIds == {1, 2}

PairName(f, d, c, t) ==
    [dir |-> d, floatpart |-> <<Digits[f + 1]>>, profpart |-> ProfilePart(c),
     ftype |-> t, glued |-> FALSE]

PairNamesOf(f, log_set) ==
    {PairName(f, d, c, "msg") :
        d \in IF log_set THEN Dirs ELSE {"in"},
        c \in 1..(IF log_set THEN MaxLogCycle ELSE MaxPairCycle)}

PairNames(log_set) == UNION {PairNamesOf(f, log_set) : f \in FloatIds}

\* the msg files of the two floats' runs: complete files
PairContents == {mc \in MsgContents(TRUE) : mc.shape.gps = "fix"}

\* the archives by the name get_filename_out gives them, the ledger and the
\* loop
PairState ==
    [nc1 |-> Archive, nc2 |-> other, ledger |-> ledger, status |-> status]

\* the loop body on the archive that filename_out_eng names: eng_2.nc for
\* float 2, eng_1.nc else; without a name (None) no archive is touched
PairLoopBody(st, log_set, fn, mc, lc) ==
    LET out == GetFilenameOut(fn)
        r   == MainLoopBody([nc |-> IF out = 2 THEN st.nc2 ELSE st.nc1,
                             ledger |-> st.ledger, status |-> st.status],
                            log_set, fn, mc, lc)
    IN [nc1    |-> IF out = 2 THEN st.nc1 ELSE r.nc,
        nc2    |-> IF out = 2 THEN r.nc ELSE st.nc2,
        ledger |-> r.ledger,
        status |-> r.status]

PairProcessFile(fn, mc, lc) ==
    /\ status = "running"
    /\ Len(ledger) < MaxLedger
    /\ LET r == PairLoopBody(PairState, useLog, fn, mc, lc)
       IN /\ exists' = r.nc1.exists
          /\ CYCLE_NUMBER' = r.nc1.cycles
          /\ data' = r.nc1.data
          /\ other' = r.nc2
          /\ ledger' = r.ledger
          /\ status' = r.status
    /\ UNCHANGED <<useLog, arg, res>>

PairNext ==
    \/ \E fn \in PairNames(useLog), mc \in PairContents :
          \E lc \in LogContentsOf(useLog, fn) : PairProcessFile(fn, mc, lc)
    \/ Restart

PairSpec == Init /\ [][PairNext]_vars

\* the float a file name belongs to
FloatOf(fn) == IntOf(fn.floatpart)

\* the rows of the ledger that belong to the float f
RowsOf(log, f) == SelectSeq(log, LAMBDA r : r.FloatID = f)

\* the file names of float f the change check can be asked about
PairCheckNames(f, t) ==
    {PairName(f, d, c, t) : d \in Dirs \cup {"new"}, c \in 1..MaxPairCycle}

\* a pipeline of its own for each float: the body run by a process that no
\* other float's failure has ended
Piped(st, log_set, fn, mc, lc) ==
    PairLoopBody([st EXCEPT !.status = "running"], log_set, fn, mc, lc)

\* C13: processing a file of float A changes neither the archive of the
\* other float B nor the result of the change check for any file of B, and
\* processing a file of float 1 and a file of float 2 in either order gives
\* the same two archives and the same ledger rows of each float
C13_FloatsIndependent ==
    /\ \A fn \in PairNames(useLog), mc \in PairContents :
       \A lc \in LogContentsOf(useLog, fn) :
          LET r == Piped(PairState, useLog, fn, mc, lc)
              b == CHOOSE f \in FloatIds : f # FloatOf(fn)
          IN /\ (IF b = 2 THEN r.nc2 ELSE r.nc1) = (IF b = 2 THEN other ELSE Archive)
             /\ RowsOf(r.ledger, b) = RowsOf(ledger, b)
             /\ \A t \in {"msg", "log"} :
                \A gn \in PairCheckNames(b, t), h \in CheckHashes(t) :
                   CheckConvNeedFile(gn, h, r.ledger) = CheckConvNeedFile(gn, h, ledger)
    /\ \A fa \in PairNamesOf(1, useLog), fb \in PairNamesOf(2, useLog) :
       \A ma \in PairContents, mb \in PairContents :
       \A la \in LogContentsOf(useLog, fa), lb \in LogContentsOf(useLog, fb) :
       \A a \in {Piped(PairState, useLog, fa, ma, la)},
          b \in {Piped(PairState, useLog, fb, mb, lb)} :
       \A ab \in {Piped(a, useLog, fb, mb, lb)}, ba \in {Piped(b, useLog, fa, ma, la)} :
          /\ ab.nc1 = ba.nc1
          /\ ab.nc2 = ba.nc2
          /\ \A f \in FloatIds : RowsOf(ab.ledger, f) = RowsOf(ba.ledger, f)

\* both floats have an archive with a cycle stored and rows in the ledger
C13_Witness ==
    /\ Len(CYCLE_NUMBER) >= 1
    /\ Len(other.cycles) >= 1
    /\ \A f \in FloatIds : Len(RowsOf(ledger, f)) >= 1

\* ------------------------------------------------ the high-resolution block
\* bounds of the blocks fed to parse_high_res_pts
MaxBin == 3            \* NBin of the Sbe41cp line: 0..MaxBin
MaxLines == 3          \* lines left in the file when the block starts

\* the lines are sequences of characters, as readline().strip() gives them
HexDigits == Digits \o <<"A", "B", "C", "D", "E", "F">>

IsHex(ch) == \E i \in 1..Len(HexDigits) : HexDigits[i] = ch

HexVal(ch) == (CHOOSE i \in 1..Len(HexDigits) : HexDigits[i] = ch) - 1

\* int(s, 16) of a string of hex digits
RECURSIVE HexOf(_)
HexOf(s) ==
    IF Len(s) = 0 THEN 0
    ELSE 16 * HexOf(SubSeq(s, 1, Len(s) - 1)) + HexVal(s[Len(s)])

Rep(ch, n) == [i \in 1..n |-> ch]

\* num_len = [4, 4, 4, 2] of an APEX float: p, T, S and the bin count
num_len == <<4, 4, 4, 2>>

end_idx(c) == IF c = 1 THEN num_len[1] ELSE IF c = 2 THEN num_len[1] + num_len[2]
              ELSE IF c = 3 THEN num_len[1] + num_len[2] + num_len[3]
              ELSE num_len[1] + num_len[2] + num_len[3] + num_len[4]

start_idx(c) == IF c = 1 THEN 0 ELSE end_idx(c - 1)

\* the lines of the blocks: a sample line, a second one with p above the
\* zero reference, the all-zero line without and with a repeat count, a line
\* cut short after six characters, a sample line cut short and commingled
\* with the "# GPS fix" line that follows, and the "Resm" line
SampleLine == Rep("1", 12) \o <<"0", "1">>

HighLine == Rep("F", 12) \o <<"0", "2">>

ZeroLine(n) ==
    IF n = 0 THEN Rep("0", 14)
    ELSE Rep("0", 14) \o <<"[", Digits[n + 1], "]">>

ShortLine == Rep("1", 6)

HashLine == Rep("1", 9) \o <<"#", " ", "G", "P", "S">>

ResmLine == <<"R", "e", "s", "m", " ", "0">>

HrLines ==
    {SampleLine, HighLine, ShortLine, HashLine, ResmLine}
       \cup {ZeroLine(n) : n \in 0..MaxBin}

\* regex0 = ^00000000[0-9A-F]+(?:\[(\d+)\])? : match, and group 1 as a number
\* (-1 when the group did not take part)
HexRunEnd(line) ==
    CHOOSE e \in 8..Len(line) :
       /\ \A i \in 9..e : IsHex(line[i])
       /\ (e < Len(line) => ~IsHex(line[e + 1]))

Regex0(line) ==
    IF Len(line) >= 9 /\ (\A i \in 1..8 : line[i] = "0") /\ IsHex(line[9])
    THEN LET e == HexRunEnd(line)
             D == {j \in (e + 2)..Len(line) :
                      /\ \A i \in (e + 2)..j : IsDigit(line[i])
                      /\ j < Len(line) /\ line[j + 1] = "]"}
         IN IF e < Len(line) /\ line[e + 1] = "[" /\ D # {}
            THEN [match |-> TRUE,
                  group |-> IntOf(SubSeq(line, e + 2, CHOOSE j \in D : TRUE))]
            ELSE [match |-> TRUE, group |-> -1]
    ELSE [match |-> FALSE, group |-> -1]

\* regex = ^[0-9A-F\[\]]+$
RegexHex(line) ==
    /\ Len(line) >= 1
    /\ \A i \in 1..Len(line) : IsHex(line[i]) \/ line[i] = "[" \/ line[i] = "]"

HasHash(line) == \E i \in 1..Len(line) : line[i] = "#"

\* the values of one line: int(line[start:end], 16) for the fields the line
\* is long enough for, nan for the others
LineValues(line) ==
    LET full == {c \in 1..Len(num_len) : \A b \in 1..c : Len(line) >= end_idx(b)}
    IN [c \in 1..Len(num_len) |->
          IF c \in full
          THEN HexOf(SubSeq(line, start_idx(c) + 1, end_idx(c)))
          ELSE NaN]

\* every field the line is long enough for is a hex number: int(.., 16) does
\* not raise
FieldsConvert(line) ==
    \A c \in 1..Len(num_len) :
       (\A b \in 1..c : Len(line) >= end_idx(b)) =>
          \A i \in (start_idx(c) + 1)..end_idx(c) : IsHex(line[i])

\* hex_conv: the zero reference and the scale of p, T and S
Wrap == 65536

hex_conv == <<<<32768, 10>>, <<61440, 1000>>, <<61440, 1000>>>>

NotAvailable == [nan |-> TRUE, num |-> 0, scale |-> 1]

\* mutant of Decode: the raw value is taken as unsigned, 65536 is not taken
\* off the values above the reference
Decode_NoWrap(r, c) ==
    LET ref == hex_conv[c][1]
    IN IF r = NaN \/ r = ref THEN NotAvailable
       ELSE [nan |-> FALSE, num |-> r, scale |-> hex_conv[c][2]]

\* convert_high_res_data for one value of column c: t_hi, t_lo and t_nan
\* select (tmp - 65536) / scale, tmp / scale or nan; the value is num / scale
Decode(r, c) ==
    LET ref   == hex_conv[c][1]
        t_hi  == IF r - ref > 0 THEN 1 ELSE 0
        t_lo  == IF r - ref < 0 THEN 1 ELSE 0
        t_nan == r - ref # 0
    IN IF r = NaN \/ ~t_nan THEN NotAvailable
       ELSE [nan |-> FALSE, num |-> t_hi * (r - Wrap) + t_lo * r,
             scale |-> hex_conv[c][2]]

\* convert_high_res_data for one row: p, T and S are converted, the bin
\* count is kept
ConvertRow(row) ==
    [c \in 1..Len(num_len) |->
        IF c <= Len(hex_conv) THEN Decode(row[c], c)
        ELSE IF row[c] = NaN THEN NotAvailable
        ELSE [nan |-> FALSE, num |-> row[c], scale |-> 1]]

ConvertHighResData(rows) == [k \in 1..Len(rows) |-> ConvertRow(rows[k])]

\* fp.readline().strip(): the line at position pos, '' at the end of the file
LineAt(lines, pos) == IF pos <= Len(lines) THEN lines[pos] ELSE <<>>

NrepOf(m) == IF m.group >= 0 THEN m.group ELSE 1

HrRaised == [raised |-> TRUE, nhighres |-> 0, incomplete |-> FALSE,
             hr_vals |-> <<>>, pos |-> 0]

HrDone(rows, incomplete, pos) ==
    [raised |-> FALSE, nhighres |-> Len(rows), incomplete |-> incomplete,
     hr_vals |-> ConvertHighResData(rows), pos |-> pos]

\* mutant of HrLoop: the all-zero line ends the block only when its repeat
\* count passes the lines that are left (> for >=)
RECURSIVE HrLoop_Strict(_, _, _, _, _)
HrLoop_Strict(lines, nlines, i, pos, rows) ==
    IF i >= nlines THEN HrDone(rows, FALSE, pos)
    ELSE LET line == LineAt(lines, pos)
             m    == Regex0(line)
         IN IF HasHash(line) THEN HrRaised
            ELSE IF m.match /\ NrepOf(m) + i > nlines
            THEN HrDone(rows, FALSE, pos + 1)
            ELSE IF RegexHex(line)
            THEN IF FieldsConvert(line)
                 THEN HrLoop_Strict(lines, nlines, i + 1, pos + 1,
                                    Append(rows, LineValues(line)))
                 ELSE HrRaised
            ELSE HrDone(rows, TRUE, IF line = ResmLine THEN pos + 1 ELSE pos)

\* the loop "for i in range(nlines)" of parse_high_res_pts from iteration i,
\* the file at line pos, rows the lines stored in hr_values so far
RECURSIVE HrLoop(_, _, _, _, _)
HrLoop(lines, nlines, i, pos, rows) ==
    IF i >= nlines THEN HrDone(rows, FALSE, pos)
    ELSE LET line == LineAt(lines, pos)
             m    == Regex0(line)
         IN IF HasHash(line) THEN HrRaised
            ELSE IF m.match /\ NrepOf(m) + i >= nlines
            THEN HrDone(rows, FALSE, pos + 1)
            ELSE IF RegexHex(line)
            THEN IF FieldsConvert(line)
                 THEN HrLoop(lines, nlines, i + 1, pos + 1,
                             Append(rows, LineValues(line)))
                 ELSE HrRaised
            ELSE HrDone(rows, TRUE, IF line = ResmLine THEN pos + 1 ELSE pos)

\* mutant of ParseHighResPts: the repeat count of the leading all-zero line
\* is not taken off the number of lines
ParseHighResPts_NoRep(lines, nbin) ==
    LET m      == Regex0(LineAt(lines, 1))
        nlines == nbin
    IN HrLoop(lines, nlines, 0, IF m.match THEN 2 ELSE 1, <<>>)

\* parse_high_res_pts of an APEX float: the first line may be an all-zero
\* line, whose repeat count is taken off the number of lines to read;
\* np.full raises ValueError for a negative number of lines
ParseHighResPts(lines, nbin) ==
    LET m      == Regex0(LineAt(lines, 1))
        nrep   == IF m.match THEN NrepOf(m) ELSE 0
        nlines == nbin - nrep
    IN IF nlines < 0 THEN HrRaised
       ELSE HrLoop(lines, nlines, 0, IF m.match THEN 2 ELSE 1, <<>>)

\* ------------------------------------------- the calls of single functions
\* the runs over the files are not started: no archive, no ledger
Idle ==
    /\ exists = FALSE
    /\ CYCLE_NUMBER = <<>>
    /\ data = <<>>
    /\ ledger = <<>>
    /\ status = "running"
    /\ useLog = FALSE
    /\ other = [exists |-> FALSE, cycles |-> <<>>, data |-> <<>>]

idle == <<exists, CYCLE_NUMBER, data, ledger, status, useLog, other>>

NotCalled == [done |-> FALSE]

Returned(v) == [done |-> TRUE, val |-> v]

\* convert_high_res_data on one raw 16-bit value r of column c
DecodeInit ==
    /\ Idle
    /\ arg \in [r : 0..(Wrap - 1), c : 1..Len(hex_conv)]
    /\ res = NotCalled

DecodeCall ==
    /\ ~res.done
    /\ res' = Returned(Decode(arg.r, arg.c))
    /\ UNCHANGED <<idle, arg>>

DecodeSpec == DecodeInit /\ [][DecodeCall]_vars

\* C14: a raw unsigned 16-bit value r of pressure (reference 32768, scale
\* 10), temperature (61440, 1000) or salinity (61440, 1000) decodes to
\* (r - 65536) / scale above the reference, to r / scale below it, and to
\* not-available at the reference
C14_PrimaryDecoding ==
    res.done =>
       LET r     == arg.r
           ref   == IF arg.c = 1 THEN 32768 ELSE 61440
           scale == IF arg.c = 1 THEN 10 ELSE 1000
           v     == res.val
       IN /\ r > ref => (~v.nan /\ v.num = r - 65536 /\ v.scale = scale)
          /\ r < ref => (~v.nan /\ v.num = r /\ v.scale = scale)
          /\ r = ref => v.nan

\* a temperature above its reference was decoded
C14_Witness == res.done /\ arg.c = 2 /\ arg.r = 65535 /\ res.val.num = -1

\* parse_high_res_pts on the lines of one block with NBin = nbin
RECURSIVE SeqsUpTo(_, _)
SeqsUpTo(S, n) ==
    IF n = 0 THEN {<<>>}
    ELSE LET shorter == SeqsUpTo(S, n - 1)
         IN shorter \cup {Append(q, x) : q \in {t \in shorter : Len(t) = n - 1}, x \in S}

HrInit ==
    /\ Idle
    /\ arg \in [lines : SeqsUpTo(HrLines, MaxLines), nbin : 0..MaxBin]
    /\ res = NotCalled

HrCall ==
    /\ ~res.done
    /\ res' = Returned(ParseHighResPts(arg.lines, arg.nbin))
    /\ UNCHANGED <<idle, arg>>

HrSpec == HrInit /\ [][HrCall]_vars

\* the block starts with k sample lines of full width
ValidLines == {SampleLine, HighLine}

StartsWithValid(lines, k) ==
    /\ k <= Len(lines)
    /\ \A j \in 1..k : lines[j] \in ValidLines

\* no line of the block is commingled with a comment line
NoHash(lines) == \A j \in 1..Len(lines) : ~HasHash(lines[j])

\* the first k lines were decoded and are the rows returned
KeepsFirst(lines, k, pts) ==
    /\ pts.nhighres = k
    /\ Len(pts.hr_vals) = k
    /\ \A j \in 1..k : pts.hr_vals[j] = ConvertRow(LineValues(lines[j]))

C16_ZeroLineIsPadding ==
    res.done =>
       \A k \in 0..(Len(arg.lines) - 1), n \in 0..MaxBin :
          (/\ StartsWithValid(arg.lines, k)
           /\ arg.lines[k + 1] = ZeroLine(n)
           /\ NoHash(arg.lines)
           /\ k < arg.nbin) =>
             LET N == IF n = 0 THEN 1 ELSE n
             IN /\ ~res.val.raised
                /\ \A j \in 1..Len(res.val.hr_vals) :
                      res.val.hr_vals[j] # ConvertRow(LineValues(ZeroLine(0)))
                /\ res.val.nhighres + N <= arg.nbin \/ res.val.nhighres = k
                /\ k + N > arg.nbin => KeepsFirst(arg.lines, k, res.val)

\* C17: a line shorter than the total field width ends the decoding of the
\* block: nothing is raised, incomplete = true, and the samples decoded
\* before it are the ones returned
C17_ShortLineEndsBlock ==
    res.done =>
       \A k \in 0..(Len(arg.lines) - 1) :
          (/\ StartsWithValid(arg.lines, k)
           /\ arg.lines[k + 1] = ShortLine
           /\ NoHash(arg.lines)
           /\ k < arg.nbin) =>
             /\ ~res.val.raised
             /\ res.val.incomplete = TRUE
             /\ KeepsFirst(arg.lines, k, res.val)

\* C18: a line that is not a pure hex/bracket line, a line commingled with a
\* '#' comment line included, stops the decoding and marks the block
\* incomplete, and the samples decoded before it are returned, nhighres
\* their number
C18_MalformedLineStops ==
    res.done =>
       \A k \in 0..(Len(arg.lines) - 1) :
          (/\ StartsWithValid(arg.lines, k)
           /\ arg.lines[k + 1] \in {HashLine, ResmLine}
           /\ k < arg.nbin) =>
             /\ ~res.val.raised
             /\ res.val.incomplete = TRUE
             /\ KeepsFirst(arg.lines, k, res.val)

\* ----------------------------------------------------------- the time stamp
MaxTime == 3           \* the times found in a file: 1..MaxTime

\* what parse_profile_terminated, parse_msg_gps_fix and the header left in
\* coords and vars: 0 stands for a key that is not there, NaN for the
\* Fix_time = np.nan of a file without "GPS fix obtained"
TimeArgs == [prof : 0..MaxTime, fix : {NaN} \cup 0..MaxTime, msgt : 0..MaxTime]

TimeCoords(a) ==
    LET c1 == IF a.prof # 0 THEN Put(EmptyDict, "Profile_time", a.prof) ELSE EmptyDict
    IN IF a.fix # 0 THEN Put(c1, "Fix_time", a.fix) ELSE c1

TimeVars(a) == IF a.msgt # 0 THEN Put(EmptyDict, "MessageTime", a.msgt) ELSE EmptyDict

TimeInit ==
    /\ Idle
    /\ arg \in TimeArgs
    /\ res = NotCalled

TimeCall ==
    /\ ~res.done
    /\ res' = Returned(AssignTime(TimeVars(arg), TimeCoords(arg))["time"])
    /\ UNCHANGED <<idle, arg>>

TimeSpec == TimeInit /\ [][TimeCall]_vars

\* C19: the time of the record is the fix time when there is one, else the
\* profile-termination time when there is one, else the message time when
\* there is one, and it is absent (nan) only when there is none of the three
C19_TimePrecedence ==
    res.done =>
       res.val = IF arg.fix >= 1 THEN arg.fix
                 ELSE IF arg.prof >= 1 THEN arg.prof
                 ELSE IF arg.msgt >= 1 THEN arg.msgt
                 ELSE NaN

\* ---------------------------------------------------------- the park sample
MaxParkVal == 2        \* the values of a discrete sample: 1..MaxParkVal
MaxSamples == 2        \* the samples of a discrete block: 0..MaxSamples

ParkFields == {"ParkPressure", "ParkTemperature", "ParkSalinity"}

\* a line of the discrete block: p, t and s, and '(Park Sample)' in the line
DiscreteSamples ==
    [p : 1..MaxParkVal, t : 1..MaxParkVal, s : 1..MaxParkVal, park : BOOLEAN]

\* what parse_discrete_samples returns: the samples read, and whether the
\* line of the variable names held the column s (a file cut off in that
\* line holds no sample)
DiscreteBlocks ==
    {[has_s |-> TRUE, samples |-> q] : q \in SeqsUpTo(DiscreteSamples, MaxSamples)}
       \cup {[has_s |-> FALSE, samples |-> <<>>]}

\* mutant of CopyParkSample: the last park sample is copied when there is
\* at least one
CopyParkSample_Last(vs, discrete, quit) ==
    LET flagged == {i \in 1..Len(discrete.samples) : discrete.samples[i].park}
    IN IF ~discrete.has_s THEN [raised |-> FALSE, vars |-> vs]
       ELSE LET v0 == Put(vs, "NDiscreteSamples", Len(discrete.samples))
            IN IF flagged # {}
               THEN LET idx == CHOOSE i \in flagged : \A j \in flagged : j <= i
                    IN [raised |-> FALSE,
                        vars |-> Put(Put(Put(v0, "ParkPressure", discrete.samples[idx].p),
                                         "ParkTemperature", discrete.samples[idx].t),
                                     "ParkSalinity", discrete.samples[idx].s)]
               ELSE [raised |-> FALSE,
                     vars |-> Put(Put(Put(v0, "ParkPressure", NaN),
                                      "ParkTemperature", NaN), "ParkSalinity", NaN)]

\* copy_park_sample: one park sample is copied, none gives nan, more than
\* one stops in pdb.set_trace(), which the user leaves with "continue"
\* (nothing is set) or which ends the run (quit, or no terminal)
CopyParkSample(vs, discrete, quit) ==
    LET flagged == {i \in 1..Len(discrete.samples) : discrete.samples[i].park}
    IN IF ~discrete.has_s THEN [raised |-> FALSE, vars |-> vs]
       ELSE LET v0 == Put(vs, "NDiscreteSamples", Len(discrete.samples))
            IN IF Cardinality(flagged) = 1
               THEN LET idx == CHOOSE i \in flagged : \A j \in flagged : i <= j
                    IN [raised |-> FALSE,
                        vars |-> Put(Put(Put(v0, "ParkPressure", discrete.samples[idx].p),
                                         "ParkTemperature", discrete.samples[idx].t),
                                     "ParkSalinity", discrete.samples[idx].s)]
               ELSE IF Cardinality(flagged) = 0
               THEN [raised |-> FALSE,
                     vars |-> Put(Put(Put(v0, "ParkPressure", NaN),
                                      "ParkTemperature", NaN), "ParkSalinity", NaN)]
               ELSE [raised |-> quit, vars |-> v0]

ParkInit ==
    /\ Idle
    /\ arg \in DiscreteBlocks
    /\ res = NotCalled

ParkCall(quit) ==
    /\ ~res.done
    /\ res' = Returned(CopyParkSample(EmptyDict, arg, quit))
    /\ UNCHANGED <<idle, arg>>

ParkNext == \E quit \in BOOLEAN : ParkCall(quit)

ParkSpec == ParkInit /\ [][ParkNext]_vars

MaxFieldVal == 2       \* the values of the lines of header, footer and log

skip_vars == {"AltDialCmd", "AtDialCmd", "DebugBits", "Pwd", "User"}

firmware == {"Apf9iFwRev", "Apf11FwRev", "NpfFwRev"}

non_time_vars == {"Float_type", "Program", "Sbe41cpSerNo", "Firmware"} \cup firmware

\* the tuple (value, unit) of a variable, with the Python type of the value:
\* "str" a string of digits, "text" any other string, "int", "float"
Tup(v, u, t) == [val |-> v, unit |-> u, type |-> t]

\* the firmware name that get_fwrev extracts from a line of the family
FwName(fam) == IF fam = "Apf" THEN "Apf9iFwRev" ELSE "NpfFwRev"

FloatType(fam) == IF fam = "Apf" THEN "APEX" ELSE "Navis"

NoLine == [kind |-> "none"]

\* a line "<fam>... FwRev <val>" of the header, "<fam>FwRev=<val>" of the footer
FwLines == {[kind |-> "fwrev", fam |-> f, val |-> 1] : f \in {"Apf", "Npf"}}

\* header lines "$ name(val) [unit]" and "$ name(val)"
HeaderFieldLines ==
    [kind : {"field"}, name : {"ParkPressure", "Pwd", "ParkPistonPos", "IsusInit"},
     val : 1..MaxFieldVal, unit : {"", "dbar"}]

\* footer lines "name=0x<val>" (hex), "name=<val>" (num), "name=<other>" (text)
FooterFieldLines ==
    [kind : {"field"}, name : {"ParkPressure", "Pwd", "DebugBits"},
     val : 1..MaxFieldVal, shape : {"hex", "num", "text"}]

\* log lines "LogConfiguration() name(val) [unit]", the unit is optional
LogFieldLines ==
    [kind : {"field"}, name : {"ParkPressure", "Pwd", "ParkPistonPos"},
     val : 1..MaxFieldVal, unit : {"", "dbar"}]

\* parse_msg_file: the defaults set before the file is read
MsgDefaults ==
    Put(Put(Put(Put(EmptyDict, "Program", Tup("Core", "", "text")),
                "Float_type", Tup("Unknown", "", "text")),
            "msgEOT", Tup(0, "", "str")),
        "Firmware", Tup("Unknown", "", "text"))

\* parse_msg_header, the body of its loop for one line: regex1 is a line
\* with a unit, regex2 one without, else a line with FwRev
HeaderLine(vs, l) ==
    IF l.kind = "none" THEN vs
    ELSE IF l.kind = "fwrev"
    THEN Put(Put(Put(vs, "Float_type", Tup(FloatType(l.fam), "", "text")),
                 "Firmware", Tup(FwName(l.fam), "", "text")),
             FwName(l.fam), Tup(l.val, "", "str"))
    ELSE LET v0 == IF l.name \in {"IsusInit", "DuraInit"}
                   THEN Put(vs, "Program", Tup("BGC", "", "text")) ELSE vs
         IN IF l.unit # ""
            THEN IF l.name = "ParkPressure" THEN Put(v0, "ParkPressure0", Tup(l.val, l.unit, "str"))
                 ELSE IF l.name \in skip_vars THEN v0
                 ELSE Put(v0, l.name, Tup(l.val, l.unit, "str"))
            ELSE Put(v0, l.name, Tup(l.val, "", "str"))

\* parse_msg_footer, the body of its loop for one line; quit is how the
\* debugger is left after a conflict of the float type
FooterLine(vs, l, quit) ==
    IF l.kind = "none" THEN [raised |-> FALSE, vars |-> vs]
    ELSE IF l.kind = "fwrev"
    THEN LET conflict == /\ vs["Float_type"].val # "Unknown"
                         /\ vs["Float_type"].val # FloatType(l.fam)
             v0 == IF vs["Float_type"].val = "Unknown"
                   THEN Put(vs, "Float_type", Tup(FloatType(l.fam), "", "text")) ELSE vs
             v1 == Put(Put(v0, "Firmware", Tup(FwName(l.fam), "", "text")),
                       FwName(l.fam), Tup(l.val, "", "str"))
         IN IF conflict /\ quit THEN [raised |-> TRUE, vars |-> vs]
            ELSE [raised |-> FALSE, vars |-> v1]
    ELSE [raised |-> FALSE,
          vars |-> IF l.shape = "hex" THEN Put(vs, l.name, Tup(l.val, "", "int"))
                   ELSE Put(vs, l.name, Tup(l.val, "", "str"))]

\* parse_log_line for a LogConfiguration line
ParseLogLine(vs, l) ==
    IF l.kind = "none" THEN vs
    ELSE IF Has(vs, l.name) /\ ~(vs[l.name].type = "text" /\ vs[l.name].val = "null") THEN vs
    ELSE IF l.name \in skip_vars THEN vs
    ELSE IF l.name = "ParkPressure" THEN Put(vs, "ParkPressure0", Tup(l.val, l.unit, "str"))
    ELSE Put(vs, l.name, Tup(l.val, l.unit, "str"))

\* the discrete block of a file whose one sample, of pressure p, is the park
\* sample; p = 0 is a file without discrete samples
ParkBlock(p) ==
    IF p = 0 THEN [has_s |-> FALSE, samples |-> <<>>]
    ELSE [has_s |-> TRUE, samples |-> <<[p |-> p, t |-> 1, s |-> 1, park |-> TRUE]>>]

ParkUnit(f) ==
    CASE f = "ParkPressure" -> "dbar"
      [] f = "ParkTemperature" -> "degC"
      [] f = "ParkSalinity" -> "PSU"
      [] OTHER -> ""

\* copy_park_sample on the vars of the file: what it sets is a float, or
\* the int NDiscreteSamples
CopyParkInto(vs, p) ==
    LET r == CopyParkSample(EmptyDict, ParkBlock(p), FALSE).vars
    IN [n \in DOMAIN vs \cup DOMAIN r |->
           IF n \in DOMAIN r
           THEN Tup(r[n], ParkUnit(n), IF n = "NDiscreteSamples" THEN "int" ELSE "float")
           ELSE vs[n]]

\* parse_msg_middle: the park prefix is chosen from Program and Float_type,
\* which fails for a BGC float of unknown type; the park sample is copied;
\* the high-resolution block is decoded with navis_bgc from the same two
ParseMsgMiddle(vs, p) ==
    IF vs["Program"].val = "BGC" /\ vs["Float_type"].val \notin {"APEX", "Navis"}
    THEN [raised |-> TRUE, vars |-> vs, used |-> [set |-> FALSE]]
    ELSE [raised |-> FALSE, vars |-> CopyParkInto(vs, p),
          used |-> [set |-> TRUE, Program |-> vs["Program"].val,
                    Float_type |-> vs["Float_type"].val]]

\* create_nc_file for an archive that does not exist: the variables it defines
CreatedNames(vs) ==
    {"floatid", "wmoid", "Program", "Float_type", "Firmware", "CYCLE_NUMBER",
     "time", "longitude", "latitude"}
       \cup (DOMAIN vs \cap firmware)
       \cup {n \in DOMAIN vs : n \notin {"AltDialCmd", "AtDialCmd", "DebugBits"}
                                  /\ n \notin non_time_vars}

\* write_nc_one_step: the values of the time-dependent variables of one step
WrittenValues(vs) ==
    [n \in {m \in DOMAIN vs : m \notin skip_vars /\ m \notin non_time_vars} |-> vs[n].val]

\* a transmission: a zero file (cycle 000) has no middle part, and only the
\* log of a zero file is read for LogConfiguration lines
Transmissions ==
    [zero : {FALSE}, hfw : FwLines \cup {NoLine}, hdr : HeaderFieldLines \cup {NoLine},
     park : 0..MaxParkVal, ffw : FwLines \cup {NoLine},
     ftr : FooterFieldLines \cup {NoLine}, log : {NoLine}]
      \cup
    [zero : {TRUE}, hfw : FwLines \cup {NoLine}, hdr : HeaderFieldLines \cup {NoLine},
     park : {0}, ffw : FwLines \cup {NoLine},
     ftr : FooterFieldLines \cup {NoLine}, log : LogFieldLines \cup {NoLine}]

NoArchive == [names |-> {}, row |-> EmptyDict]

FieldInit ==
    /\ Idle
    /\ arg \in Transmissions
    /\ res = [pc |-> "start", vars |-> MsgDefaults, used |-> [set |-> FALSE],
              nc |-> NoArchive]

\* parse_msg_file up to the end of parse_msg_header
FsHeader ==
    /\ res.pc = "start"
    /\ res' = [res EXCEPT !.pc = "header",
                          !.vars = HeaderLine(HeaderLine(res.vars, arg.hfw), arg.hdr)]
    /\ UNCHANGED <<idle, arg>>

\* parse_msg_middle, not called for a zero file
FsMiddle ==
    /\ res.pc = "header"
    /\ LET m == ParseMsgMiddle(res.vars, arg.park)
       IN res' = IF arg.zero THEN [res EXCEPT !.pc = "middle"]
                 ELSE IF m.raised THEN [res EXCEPT !.pc = "raised"]
                 ELSE [res EXCEPT !.pc = "middle", !.vars = m.vars, !.used = m.used]
    /\ UNCHANGED <<idle, arg>>

\* parse_msg_footer
FsFooter(quit) ==
    /\ res.pc = "middle"
    /\ LET f1 == FooterLine(res.vars, arg.ffw, quit)
           f2 == FooterLine(f1.vars, arg.ftr, quit)
       IN res' = IF f1.raised \/ f2.raised THEN [res EXCEPT !.pc = "raised"]
                 ELSE [res EXCEPT !.pc = "footer", !.vars = f2.vars]
    /\ UNCHANGED <<idle, arg>>

\* parse_log_file, LogConfiguration lines are read in the log of a zero file
FsLog ==
    /\ res.pc = "footer"
    /\ res' = [res EXCEPT !.pc = "log",
                          !.vars = IF arg.zero THEN ParseLogLine(res.vars, arg.log)
                                   ELSE res.vars]
    /\ UNCHANGED <<idle, arg>>

\* create_nc_file and write_nc_one_step of the main loop
FsWrite ==
    /\ res.pc = "log"
    /\ res' = [res EXCEPT !.pc = "written",
                          !.nc = [names |-> CreatedNames(res.vars),
                                  row |-> WrittenValues(res.vars)]]
    /\ UNCHANGED <<idle, arg>>

FieldNext ==
    \/ FsHeader
    \/ FsMiddle
    \/ \E quit \in BOOLEAN : FsFooter(quit)
    \/ FsLog
    \/ FsWrite

FieldSpec == FieldInit /\ [][FieldNext]_vars

\* the values of the configured park pressure that the lines of a
\* transmission carry
Targets(a) ==
    {[val |-> l.val, type |-> IF l.kind = "field" /\ l.name = "ParkPressure"
                                  /\ "shape" \in DOMAIN l /\ l.shape = "hex"
                              THEN "int" ELSE "str"] :
        l \in {x \in {a.hdr, a.ftr, a.log} : x.kind = "field" /\ x.name = "ParkPressure"}}

\* C21: after the extraction of a transmission with a ParkPressure line and
\* a unique park sample, the configured park pressure and the pressure of
\* the park sample are the values of two different fields
C21_ParkPressureDistinct ==
    (res.pc \in {"footer", "log", "written"} /\ arg.park > 0 /\ Targets(arg) # {}) =>
       \E n1, n2 \in DOMAIN res.vars \ non_time_vars :
          /\ n1 # n2
          /\ [val |-> res.vars[n1].val, type |-> res.vars[n1].type] \in Targets(arg)
          /\ res.vars[n2].type = "float" /\ res.vars[n2].val = arg.park

\* C22: no field of the denylist is in the fields that header, footer and
\* log extraction return, and none is a variable of the archive
C22_DenylistDropped ==
    /\ DOMAIN res.vars \cap skip_vars = {}
    /\ res.nc.names \cap skip_vars = {}
    /\ DOMAIN res.nc.row \cap skip_vars = {}

\* C23: Program and Float_type of the transmission are the ones its
\* high-resolution block was decoded with
C23_ClassificationFinal ==
    res.used.set =>
       /\ res.vars["Program"].val = res.used.Program
       /\ res.vars["Float_type"].val = res.used.Float_type

\* -------------------------------------------------- short and cut msg files
\* the sections of a msg file that is not of cycle 000, as far as the file
\* goes: empty is a file of size 0; sentinel the line "$" that ends the
\* header; prof the line "Profile ... terminated:" ("cut" within its date);
\* nsamp the count of "$ Discrete samples:" (-1 without that line) and got
\* the sample lines that follow it; sbe the line with NSample and NBin;
\* lines the high-resolution block
MsgScans ==
    {a \in [empty : BOOLEAN, sentinel : BOOLEAN, prof : {"full", "cut", "none"},
            nsamp : -1..MaxSamples, got : 0..MaxSamples, sbe : BOOLEAN,
            lines : SeqsUpTo(HrLines, 1), nbin : 0..MaxBin] :
        /\ a.got <= a.nsamp \/ (a.nsamp = -1 /\ a.got = 0)
        /\ (a.got < a.nsamp) => (~a.sbe /\ a.lines = <<>>)
        /\ ~a.sbe => (a.lines = <<>> /\ a.nbin = 0)
        /\ a.empty => (a.sentinel /\ a.prof = "none" /\ a.nsamp = -1 /\ ~a.sbe)}

\* something of the file comes after the header
Follows(a) == a.prof # "none" \/ a.nsamp >= 0 \/ a.sbe

ScanRaised == [raised |-> TRUE, discrete |-> -1, pts |-> [found |-> FALSE]]

\* what parse_msg_file returns: discrete is the count of the samples read
\* (-1 for None or an empty dictionary), pts the high-resolution block
ScanDone(d, p) == [raised |-> FALSE, discrete |-> d, pts |-> p]

NoPts == [found |-> FALSE]

\* parse_discrete_samples and what parse_msg_middle does after it
ScanDiscrete(a) ==
    IF a.nsamp = -1 THEN ScanDone(-1, NoPts)
    ELSE IF a.nsamp = 0
    THEN IF ~a.sbe THEN ScanDone(-1, NoPts)
         ELSE ScanRaised                  \* discrete['var_names'] of None
    ELSE IF a.got < a.nsamp THEN ScanDone(a.got, NoPts)
    ELSE IF ~a.sbe THEN ScanDone(a.got, NoPts)
    ELSE LET p == ParseHighResPts(a.lines, a.nbin)
         IN IF p.raised THEN ScanRaised
            ELSE ScanDone(a.got, [found |-> TRUE, nhighres |-> p.nhighres,
                                  incomplete |-> p.incomplete])

\* parse_msg_file on such a file; quit is how a debugger stop is left
ParseMsgScan(a, quit) ==
    IF a.empty THEN ScanDone(-1, NoPts)
    ELSE IF ~a.sentinel /\ Follows(a)
    THEN IF quit THEN ScanRaised ELSE ScanDone(-1, NoPts)
    ELSE IF a.prof = "cut" THEN ScanRaised
    ELSE IF a.prof = "none" /\ Follows(a) /\ quit THEN ScanRaised
    ELSE ScanDiscrete(a)

ScanInit ==
    /\ Idle
    /\ arg \in MsgScans
    /\ res = NotCalled

ScanCall(quit) ==
    /\ ~res.done
    /\ res' = Returned(ParseMsgScan(arg, quit))
    /\ UNCHANGED <<idle, arg>>

ScanNext == \E quit \in BOOLEAN : ScanCall(quit)

ScanSpec == ScanInit /\ [][ScanNext]_vars

\* C24: parse_msg_file does not raise on an empty file, a file without the
\* header sentinel, a file cut within a section or a file with a discrete
\* count of zero before the high-resolution block; the samples of a cut
\* discrete block that were read are returned
C24_ShortInputNeverRaises ==
    res.done =>
       /\ ~res.val.raised
       /\ (arg.sentinel /\ arg.prof = "full" /\ arg.got < arg.nsamp)
             => res.val.discrete = arg.got

\* ------------------------------------------- files by modification time
MaxFiles == 3          \* the files of the inbox: 1..MaxFiles
MaxMtime == 2          \* their modification times: 1..MaxMtime

\* the lists of distinct elements of 1..n
DistinctLists(n) ==
    {q \in SeqsUpTo(1..n, n) : \A i, j \in 1..Len(q) : q[i] = q[j] => i = j}

\* the lists of distinct files
FileLists == DistinctLists(MaxFiles)

\* the loop of sort_files_mtime over file_list[i..]: the dictionary
\* mtime_files, keyed by the mtime, and last_mtime
RECURSIVE MtimeLoop(_, _, _, _, _)
MtimeLoop(file_list, mt, i, mtime_files, last_mtime) ==
    IF i > Len(file_list) THEN [mtime_files |-> mtime_files, last_mtime |-> last_mtime]
    ELSE LET mtime == mt[file_list[i]]
         IN MtimeLoop(file_list, mt, i + 1, Put(mtime_files, mtime, file_list[i]),
                      IF mtime > last_mtime THEN mtime ELSE last_mtime)

\* sorted(keys): the keys in ascending order
RECURSIVE Sorted(_)
Sorted(keys) ==
    IF keys = {} THEN <<>>
    ELSE LET m == CHOOSE x \in keys : \A y \in keys : x <= y
         IN <<m>> \o Sorted(keys \ {m})

\* sort_files_mtime
SortFilesMtime(file_list, mt) ==
    LET r == MtimeLoop(file_list, mt, 1, EmptyDict, -1)
        sorted_mtimes == Sorted(DOMAIN r.mtime_files)
    IN [sorted_files |-> [k \in 1..Len(sorted_mtimes) |-> r.mtime_files[sorted_mtimes[k]]],
        last_mtime |-> r.last_mtime]

SortInit ==
    /\ Idle
    /\ arg \in [file_list : FileLists, mt : [1..MaxFiles -> 1..MaxMtime]]
    /\ res = NotCalled

SortCall ==
    /\ ~res.done
    /\ res' = Returned(SortFilesMtime(arg.file_list, arg.mt))
    /\ UNCHANGED <<idle, arg>>

SortSpec == SortInit /\ [][SortCall]_vars

\* C25: sort_files_mtime returns every file of its list exactly once, in
\* ascending order of the modification times, and the largest modification
\* time of the list, -1 for the empty list
C25_SortKeepsEveryFile ==
    res.done =>
       LET out == res.val.sorted_files
       IN /\ \A f \in Range(arg.file_list) : Count(out, f) = 1
          /\ Range(out) \subseteq Range(arg.file_list)
          /\ \A i, j \in 1..Len(out) : i < j => arg.mt[out[i]] <= arg.mt[out[j]]
          /\ \A f \in Range(arg.file_list) : arg.mt[f] <= res.val.last_mtime
          /\ res.val.last_mtime \in {arg.mt[f] : f \in Range(arg.file_list)} \cup {-1}
          /\ (arg.file_list = <<>>) => res.val.last_mtime = -1

\* ------------------------------------------------ upload of the hex file
MaxSum == 2            \* the checksums of the hex file: 1..MaxSum
MaxFtpRows == 3        \* no run starts with more rows in the ftp log

\* the configured ftp servers, in the order of the json file
ftp_servers_hex == <<1, 2>>

Servers == Range(ftp_servers_hex)

\* how a server behaves in one run: the connection fails, the transfer
\* fails, or the file is stored
Behaviours == {"down", "fail", "ok"}

\* the loop of upload_hex_ftp over servers[i..]: log is the ftp log, out
\* what happened for each server
RECURSIVE UploadHexFtp(_, _, _, _, _, _)
UploadHexFtp(log, out, sum, servers, i, up) ==
    IF i > Len(servers) THEN [log |-> log, out |-> out]
    ELSE LET srv == servers[i]
         IN IF up[srv] = "down" THEN [log |-> log, out |-> [out EXCEPT ![srv] = "down"]]
            ELSE IF up[srv] = "fail"
            THEN UploadHexFtp(log, [out EXCEPT ![srv] = "failed"], sum, servers, i + 1, up)
            ELSE UploadHexFtp(Append(log, [dest |-> srv, sum |-> sum]),
                              [out EXCEPT ![srv] = "stored"], sum, servers, i + 1, up)

\* rows_host of process_float: the rows of the ftp log for one destination
RowsHost(log, srv) == SelectSeq(log, LAMBDA r : r.dest = srv)

\* process_float without new files: the loop over the servers when the ftp
\* log has rows for the hex file; ftp_log is the log read at the start
RECURSIVE RetryLoop(_, _, _, _, _, _)
RetryLoop(ftp_log, log, out, sum, i, up) ==
    IF i > Len(ftp_servers_hex) THEN [log |-> log, out |-> out]
    ELSE LET server    == ftp_servers_hex[i]
             rows_host == RowsHost(ftp_log, server)
             need      == IF rows_host = <<>> THEN TRUE
                          ELSE rows_host[Len(rows_host)].sum # sum
             r         == IF need THEN UploadHexFtp(log, out, sum, <<server>>, 1, up)
                          ELSE [log |-> log, out |-> out]
         IN RetryLoop(ftp_log, r.log, r.out, sum, i + 1, up)

NoAttempt == [s \in Servers |-> "none"]

\* process_float, the branch without new files and with transfers enabled
ProcessFloatRetry(ftp_log, sum, up) ==
    IF ftp_log = <<>>
    THEN UploadHexFtp(ftp_log, NoAttempt, sum, ftp_servers_hex, 1, up)
    ELSE RetryLoop(ftp_log, ftp_log, NoAttempt, sum, 1, up)

\* arg is the checksum of the hex file (0: no hex file yet), res the ftp
\* log and what the last run of process_float did
UploadInit ==
    /\ Idle
    /\ arg = 0
    /\ res = [log |-> <<>>, kind |-> "none", up |-> [s \in Servers |-> "ok"],
              out |-> NoAttempt]

\* process_float with new files: the hex file changes and is uploaded to
\* all servers unless transfers are switched off
NewFilesRun(sum, no_transfer, up) ==
    /\ Len(res.log) <= MaxFtpRows
    /\ sum # arg
    /\ arg' = sum
    /\ LET r == IF no_transfer THEN [log |-> res.log, out |-> NoAttempt]
                ELSE UploadHexFtp(res.log, NoAttempt, sum, ftp_servers_hex, 1, up)
       IN res' = [log |-> r.log, kind |-> "new", up |-> up, out |-> r.out]
    /\ UNCHANGED idle

\* process_float without new files, transfers enabled, the hex file exists
RetryRun(up) ==
    /\ Len(res.log) <= MaxFtpRows
    /\ arg # 0
    /\ LET r == ProcessFloatRetry(res.log, arg, up)
       IN res' = [log |-> r.log, kind |-> "retry", up |-> up, out |-> r.out]
    /\ UNCHANGED <<idle, arg>>

UploadNext ==
    \/ \E sum \in 1..MaxSum, no_transfer \in BOOLEAN, up \in [Servers -> Behaviours] :
          NewFilesRun(sum, no_transfer, up)
    \/ \E up \in [Servers -> Behaviours] : RetryRun(up)

UploadSpec == UploadInit /\ [][UploadNext]_vars

\* the ftp log shows no upload of the file of checksum sum to the server
NotUploaded(log, srv, sum) ==
    \/ RowsHost(log, srv) = <<>>
    \/ RowsHost(log, srv)[Len(RowsHost(log, srv))].sum # sum

\* C26: a run without new files uploads the hex file to every server that
\* the ftp log does not show it on and that works in this run, whatever the
\* other server does; a row is appended for a destination only after the
\* file was stored there
C26_RetryUploads ==
    [][res'.kind = "retry" =>
          /\ \A s \in Servers :
                (NotUploaded(res.log, s, arg) /\ res'.up[s] = "ok")
                   => /\ res'.out[s] = "stored"
                      /\ ~NotUploaded(res'.log, s, arg)
          /\ \A k \in (Len(res.log) + 1)..Len(res'.log) :
                res'.out[res'.log[k].dest] = "stored"]_vars

\* ------------------------------------------------- the ledger and the merge
\* the step was a pass of the main loop over fn that an exception or a kill
\* ended before write_nc_file returned
StoppedOn(fn, mc, lc) ==
    \/ ProcessFile(fn, mc, lc) /\ status' = "aborted"
    \/ \E p \in 0..(Len(WriteOrder) + 1) : CrashInMerge(fn, mc, lc, p)

\* C27: a row of a msg file is appended only by a pass whose merge returned;
\* after a pass that stopped before, the ledger has no new row of the msg
\* file and the change check of the next run finds the transmission new or
\* changed
C27_RowOnlyAfterMerge ==
    [][/\ \A k \in (Len(ledger) + 1)..Len(ledger') :
             ledger'[k].Type = "msg" => status' = "running"
       /\ \A fn \in MsgNames(useLog) \ UnderivableNames(useLog), mc \in MsgContents(useLog) :
             \A lc \in LogContentsOf(useLog, fn) :
                (useLog /\ StoppedOn(fn, mc, lc)) => CheckConvNeed(fn, mc, lc, ledger')]_vars

\* ------------------------------------- the engineering tables of a Solo float
MaxEngCycle == 3       \* the cycles of a parsed table: 1..MaxEngCycle
MaxEngVal == 2         \* the values of its variable: 1..MaxEngVal

\* full_file_info[ftype] of parse_file: the list Cycle and the list of one
\* variable, of the same length; a cycle has one row
EngTables ==
    {t \in [Cycle : DistinctLists(MaxEngCycle), v : SeqsUpTo(1..MaxEngVal, MaxEngCycle)] :
        Len(t.Cycle) = Len(t.v)}

\* list.index(x) and list.remove(x): the first position of x
IndexOf(list, x) == CHOOSE i \in 1..Len(list) : list[i] = x /\ \A j \in 1..(i - 1) : list[j] # x

Remove(list, x) ==
    LET k == IndexOf(list, x)
    IN [i \in 1..(Len(list) - 1) |-> IF i < k THEN list[i] ELSE list[i + 1]]

MinOf(list) == CHOOSE x \in Range(list) : \A y \in Range(list) : x <= y

\* the while loop of write_nc_file for one file type: its_cycles is the
\* list full_file_info[ftype]['Cycle'] itself, col the list of the variable
RECURSIVE EngWriteLoop(_, _, _)
EngWriteLoop(its_cycles, col, nc_out) ==
    IF its_cycles = <<>> THEN nc_out
    ELSE LET min_cycle       == MinOf(its_cycles)
             min_cycle_index == IndexOf(its_cycles, min_cycle)
             isnew           == min_cycle \notin Range(nc_out.Cycle)
             cyc_idx         == IF isnew THEN Len(nc_out.Cycle) + 1
                                ELSE IndexOf(nc_out.Cycle, min_cycle)
             cyc             == IF isnew THEN Append(nc_out.Cycle, min_cycle)
                                ELSE nc_out.Cycle
             var             == IF isnew THEN Append(nc_out.v, col[min_cycle_index])
                                ELSE [nc_out.v EXCEPT ![cyc_idx] = col[min_cycle_index]]
         IN EngWriteLoop(Remove(its_cycles, min_cycle), col, [Cycle |-> cyc, v |-> var])

\* parse_eng_bgcsolo.write_nc_file on a new archive
EngWriteNcFile(t) == EngWriteLoop(t.Cycle, t.v, [Cycle |-> <<>>, v |-> <<>>])

EngInit ==
    /\ Idle
    /\ arg \in EngTables
    /\ res = NotCalled

EngCall ==
    /\ ~res.done
    /\ res' = Returned(EngWriteNcFile(arg))
    /\ UNCHANGED <<idle, arg>>

EngSpec == EngInit /\ [][EngCall]_vars

\* C28: after the write, for every row of the parsed table the position of
\* the archive whose Cycle is the row's cycle holds the row's value, in
\* whatever order the cycles stand in the table
C28_RowAlignment ==
    res.done =>
       \A i \in 1..Len(arg.Cycle) :
          \E k \in 1..Len(res.val.Cycle) :
             res.val.Cycle[k] = arg.Cycle[i] /\ res.val.v[k] = arg.v[i]

\* ------------------------------ the time-independent fields of the archive
time_indp_vars == {"Program", "Float_type", "Firmware"}

\* vars of a msg file as far as these fields go: Program, Float_type and
\* Firmware are set by parse_msg_file for every file that is not empty, and
\* vars[fw] is set together with a Firmware that is not 'Unknown'; "BGCi"
\* is a firmware name that is not in the list firmware
IncomingVars ==
    {EmptyDict} \cup
    {Put(Put(Put(EmptyDict, "Program", p), "Float_type", t), "Firmware", f) :
        p \in {"Core", "BGC"}, t \in {"Unknown", "APEX", "Navis"},
        f \in {"Unknown", "Apf9iFwRev", "NpfFwRev", "BGCi"}}

\* create_nc_file: an existing archive is left alone; a new one gets
\* Program (or 'UNKNOWN'), Float_type if vars has it, and as Firmware the
\* name of the list firmware that is a key of vars
CreateTimeIndp(nc, vs) ==
    IF nc.exists THEN nc
    ELSE [exists     |-> TRUE,
          Program    |-> IF Has(vs, "Program") THEN vs["Program"] ELSE "UNKNOWN",
          Float_type |-> IF Has(vs, "Float_type") THEN vs["Float_type"] ELSE "",
          Firmware   |-> IF Has(vs, "Firmware") /\ vs["Firmware"] \in firmware
                         THEN vs["Firmware"] ELSE ""]

\* mutant of WriteTimeIndp: the stored value is not looked at
WriteTimeIndp_Overwrite(nc, vs) ==
    [n \in DOMAIN nc |->
        IF n \in time_indp_vars /\ Has(vs, n) /\ vs[n] # "Unknown" THEN vs[n] ELSE nc[n]]

\* write_nc_one_step, the loop over time_indp_vars
WriteTimeIndp(nc, vs) ==
    [n \in DOMAIN nc |->
        IF n \in time_indp_vars /\ nc[n] \in {"", "Unknown"}
              /\ Has(vs, n) /\ vs[n] # "Unknown"
        THEN vs[n] ELSE nc[n]]

\* arg is the vars of the file merged last, res the archive
IndpInit ==
    /\ Idle
    /\ arg = EmptyDict
    /\ res = [exists |-> FALSE, Program |-> "", Float_type |-> "", Firmware |-> ""]

\* one pass of the main loop: create_nc_file, then write_nc_file, which
\* does not get to write_nc_one_step when add_time_step_nc raises for a
\* cycle that has to be inserted
MergeTimeIndp(vs, ins) ==
    /\ arg' = vs
    /\ res' = IF ins THEN CreateTimeIndp(res, vs)
              ELSE WriteTimeIndp(CreateTimeIndp(res, vs), vs)
    /\ UNCHANGED idle

IndpNext == \E vs \in IncomingVars, ins \in BOOLEAN : MergeTimeIndp(vs, ins)

IndpSpec == IndpInit /\ [][IndpNext]_vars

\* C29: a time-independent field of an existing archive that holds a value
\* other than empty or 'Unknown' is not changed by a merge; a merge changes
\* such a field only from empty or 'Unknown' and only to the incoming
\* value, which is not 'Unknown'
C29_TimeIndpWrittenOnce ==
    [][res.exists =>
          \A n \in time_indp_vars :
             /\ res[n] \notin {"", "Unknown"} => res'[n] = res[n]
             /\ res'[n] # res[n] =>
                   /\ res[n] \in {"", "Unknown"}
                   /\ Has(arg', n) /\ arg'[n] # "Unknown" /\ res'[n] = arg'[n]]_vars

\* the archive of an APEX float after the merge of a file that says Navis
C29_Witness ==
    /\ res.exists
    /\ res.Float_type = "APEX"
    /\ Has(arg, "Float_type") /\ arg["Float_type"] = "Navis"
    /\ res.Firmware = arg["Firmware"] /\ res.Firmware = "BGCi"

\* ----------------------------------------- the count of the decoded samples
\* the repeat count of a leading all-zero line, 0 without such a line
LeadingNrep(lines) ==
    LET m == Regex0(LineAt(lines, 1))
    IN IF m.match THEN NrepOf(m) ELSE 0

\* C30: the count nhighres of a block is the number of the rows of its
\* decoded array and is at most NBin less the repeat count of a leading
\* all-zero line
C30_CountWithinBins ==
    (res.done /\ ~res.val.raised) =>
       /\ res.val.nhighres = Len(res.val.hr_vals)
       /\ res.val.nhighres <= arg.nbin - LeadingNrep(arg.lines)

\* a leading all-zero line of repeat count 1 and as many samples as the
\* bins that are left
C30_Witness ==
    /\ res.done /\ ~res.val.raised
    /\ arg.nbin = 3
    /\ arg.lines = <<ZeroLine(1), SampleLine, HighLine>>
    /\ res.val.nhighres = 2

====
